---------------------------- MODULE Spec2Model ----------------------------
(***************************************************************************)
(* A model of the W3E rendering helper (class W3E, src/unnamed/part_000):  *)
(* the scene registry (_polygon), the single active index list (_index),   *)
(* the frame counter (_status.tick), the shared model matrix               *)
(* (_matrix.model), the per-frame render pipeline, the torus generator and *)
(* the HSV-to-RGB conversion _hsva.                                        *)
(*                                                                         *)
(* Numbers.  JavaScript numbers are modelled as exact rationals            *)
(* [n |-> numerator, d |-> denominator], d > 0, in lowest terms.  The      *)
(* JavaScript value `undefined` (an array read outside 0..length-1) is the *)
(* record Undefined, whose denominator is 0.  Trigonometric values, which  *)
(* no claim inspects, are kept as symbolic terms.                          *)
(*                                                                         *)
(* Matrices.  The matrix library (matIV, matrix.ts) is not part of the     *)
(* sources; the model matrix is kept as the normal form of the product of  *)
(* the translations and rotations applied since the last identity().       *)
(***************************************************************************)
EXTENDS Integers, Sequences, FiniteSets, TLC

VARIABLES
    polygon,    \* this._polygon: the registered objects, in registration order
    index,      \* this._index: the single active index list
    tick,       \* this._status.tick
    model,      \* this._matrix.model
    attached,   \* whether append() has put the canvas into a parent node
    uploads,    \* the last render call's VBO uploads, in order: <<object, attribute>>
    draws,      \* the last render call's draw calls (convert_and_attach), in order
    frameStart, \* history: this._matrix.model as the last render call found it
    frames,     \* history: the number of render calls made
    origin,     \* history: for each registered object, the public call that made it
                \* and its arguments
    lastTorus,  \* history: the arguments of the most recent create_torus call
    context,    \* whether this._gl is a WebGL context
    linked,     \* whether this._program is a linked program (else undefined)
    log,        \* the console.error messages, in order
    constructed,\* whether the constructor returned (else it threw)
    strict,     \* whether the WebGL binding throws a TypeError when handed
                \* undefined for a shader or program (else it records a GL error)
    hsvaIn,     \* the arguments <<h, s, v, a>> of one _hsva call
    hsvaCalled, \* whether that call has been made
    hsvaOut     \* what that call returned

vars == <<polygon, index, tick, model, attached, uploads, draws, frameStart,
          frames, origin, lastTorus, context, linked, log, constructed, strict,
          hsvaIn, hsvaCalled, hsvaOut>>

startVars == <<context, linked, log, constructed, strict>>

sceneVars == <<polygon, index, tick, model, attached, uploads, draws, frameStart,
               frames, origin, lastTorus, startVars>>

hsvaVars == <<hsvaIn, hsvaCalled, hsvaOut>>

-----------------------------------------------------------------------------
(* Bounds of the model.                                                    *)

MaxObjects == 2     \* registered objects
MaxTick == 2        \* render calls
MaxPlacements == 2  \* entries of one positions list
MaxRow == 2         \* create_torus: row
MaxColumn == 3      \* create_torus: column
MaxHueK == 100      \* _hsva: hues are k * 7.5 degrees, |k| <= MaxHueK
MaxUnitK == 3       \* _hsva: s, v, a are k / 2, -1 <= k <= MaxUnitK

-----------------------------------------------------------------------------
(* Exact rational arithmetic standing for JavaScript number arithmetic.    *)

Abs(x) == IF x < 0 THEN -x ELSE x

RECURSIVE GCD(_, _)
GCD(a, b) == IF b = 0 THEN a ELSE GCD(b, a % b)

Norm(n, d) ==
    LET g == GCD(Abs(n), d)
    IN  [n |-> n \div g, d |-> d \div g]

RInt(k) == [n |-> k, d |-> 1]

Undefined == [n |-> 0, d |-> 0]

IsDefined(x) == x.d > 0

RAdd(a, b) == Norm(a.n * b.d + b.n * a.d, a.d * b.d)

RSub(a, b) == Norm(a.n * b.d - b.n * a.d, a.d * b.d)

RMul(a, b) == Norm(a.n * b.n, a.d * b.d)

\* a / k for an integer k > 0
RDivInt(a, k) == Norm(a.n, a.d * k)

RGt(a, b) == a.n * b.d > b.n * a.d

RLt(a, b) == a.n * b.d < b.n * a.d

RLe(a, b) == ~RGt(a, b)

\* Math.floor
RFloor(a) == a.n \div a.d

\* the integer part, rounding toward zero
RTrunc(a) == IF a.n >= 0 THEN a.n \div a.d ELSE -((-a.n) \div a.d)

\* JavaScript's a % k for an integer k > 0: the result has the dividend's sign
JsRem(a, k) == RSub(a, RInt(k * RTrunc(RDivInt(a, k))))

\* JavaScript's arr[i] for an array of numbers: undefined outside 0..length-1
JsAt(arr, i) == IF i >= 0 /\ i < Len(arr) THEN arr[i + 1] ELSE Undefined

-----------------------------------------------------------------------------
(* _hsva(h, s, v, a)                                                       *)

\* what `return;` yields
NoResult == [returned |-> FALSE, color |-> <<>>]

HsvaInvalidGe(s, v, a) == ~RLt(s, RInt(1)) \/ ~RLt(v, RInt(1)) \/ ~RLt(a, RInt(1))

\* if (s > 1 || v > 1 || a > 1) return;
HsvaInvalid(s, v, a) == RGt(s, RInt(1)) \/ RGt(v, RInt(1)) \/ RGt(a, RInt(1))

\* const th = h % 360;
HsvaTh(h) == JsRem(h, 360)

\* const i = Math.floor(th / 60);
HsvaSector(h) == RFloor(RDivInt(HsvaTh(h), 60))

HsvaAchromaticNever(s) == FALSE

\* !(s > 0) && !(s < 0)
HsvaAchromatic(s) == ~RGt(s, RInt(0)) /\ ~RLt(s, RInt(0))

HsvaTablesSwapped(v, n, m, k) ==
    [r |-> <<v, n, m, m, k, v>>,
     g |-> <<k, v, v, n, m, m>>,
     b |-> <<m, k, m, v, v, n>>]

\* the three lookup tables r, g, b
HsvaTables(v, n, m, k) ==
    [r |-> <<v, n, m, m, k, v>>,
     g |-> <<k, v, v, n, m, m>>,
     b |-> <<m, m, k, v, v, n>>]

hsva(h, s, v, a) ==
    IF HsvaInvalid(s, v, a) THEN NoResult
    ELSE
        LET th == HsvaTh(h)
            i  == HsvaSector(h)
            f  == RSub(RDivInt(th, 60), RInt(i))
            m  == RMul(v, RSub(RInt(1), s))
            n  == RMul(v, RSub(RInt(1), RMul(s, f)))
            k  == RMul(v, RSub(RInt(1), RMul(s, RSub(RInt(1), f))))
            t  == HsvaTables(v, n, m, k)
        IN  IF HsvaAchromatic(s)
            THEN [returned |-> TRUE, color |-> <<v, v, v, a>>]
            ELSE [returned |-> TRUE,
                  color |-> <<JsAt(t.r, i), JsAt(t.g, i), JsAt(t.b, i), a>>]

-----------------------------------------------------------------------------
(* The model matrix.  A matrix is the sequence of the translations and     *)
(* rotations multiplied into it since identity(), in normal form: a zero   *)
(* translation and a zero rotation change nothing, adjacent translations   *)
(* add, adjacent rotations about one axis add their angles.  Angles are    *)
(* rationals in units of pi radians.  Equal normal forms are equal         *)
(* matrices.                                                               *)

Zero3 == <<0, 0, 0>>

VecAdd(u, w) == <<u[1] + w[1], u[2] + w[2], u[3] + w[3]>>

\* raw.identity(m)
Identity == <<>>

\* raw.translate(m, v, m)
Translate(m, v) ==
    IF v = Zero3 THEN m
    ELSE IF Len(m) > 0 /\ m[Len(m)].k = "T"
    THEN LET s == VecAdd(m[Len(m)].v, v)
         IN  IF s = Zero3 THEN SubSeq(m, 1, Len(m) - 1)
             ELSE [m EXCEPT ![Len(m)].v = s]
    ELSE Append(m, [k |-> "T", v |-> v, a |-> RInt(0)])

\* raw.rotate(m, angle, axis, m)
Rotate(m, angle, axis) ==
    IF axis = Zero3 \/ angle.n = 0 THEN m
    ELSE IF Len(m) > 0 /\ m[Len(m)].k = "R" /\ m[Len(m)].v = axis
    THEN [m EXCEPT ![Len(m)].a = RAdd(m[Len(m)].a, angle)]
    ELSE Append(m, [k |-> "R", v |-> axis, a |-> angle])

\* tick * Math.PI / 180, in units of pi
TickAngle(t) == Norm(t, 180)

-----------------------------------------------------------------------------
(* The scene registry: create_polygon, create_plane, create_torus.         *)

\* positions = null, rotate = null: the defaults of create_polygon
Null == [null |-> TRUE, val |-> <<>>]

Some(x) == [null |-> FALSE, val |-> x]

PolygonPushFront(poly, props, positions, rotate) ==
    <<[props |-> props, positions |-> positions, rotate |-> rotate]>> \o poly

\* this._polygon.push({ props, positions, rotate })
PolygonPush(poly, props, positions, rotate) ==
    Append(poly, [props |-> props, positions |-> positions, rotate |-> rotate])

Half == Norm(1, 2)

One == RInt(1)

\* sixteen 1.0: the colour attribute of both triangles of a plane
PlaneColor == [j \in 1..16 |-> One]

\* the first triangle of create_plane(x, y, z, size)
PlaneFirst(x, y, z, size) ==
    LET lo(c) == RSub(RInt(c), RMul(RInt(size), Half))
        hi(c) == RAdd(RInt(c), RMul(RInt(size), Half))
    IN  <<[attribute |-> "position", dimension |-> 3,
           vertex |-> <<lo(x), lo(y), RInt(z),
                        hi(x), lo(y), RInt(z),
                        hi(x), hi(y), RInt(z)>>],
          [attribute |-> "color", dimension |-> 4, vertex |-> PlaneColor]>>

\* the second triangle of create_plane(x, y, z, size)
PlaneSecond(x, y, z, size) ==
    LET lo(c) == RSub(RInt(c), RMul(RInt(size), Half))
        hi(c) == RAdd(RInt(c), RMul(RInt(size), Half))
    IN  <<[attribute |-> "position", dimension |-> 3,
           vertex |-> <<hi(x), hi(y), RInt(z),
                        lo(x), hi(y), RInt(z),
                        lo(x), lo(y), RInt(z)>>],
          [attribute |-> "color", dimension |-> 4, vertex |-> PlaneColor]>>

\* a trigonometric term of create_torus, kept symbolic
Term(name, row, column, irad, orad, i, ii) ==
    [sym |-> name, of |-> <<row, column, irad, orad, i, ii>>]

\* the inner loop of the vertex loops, from ii on: what it pushes to pos
RECURSIVE TorusPosInner(_, _, _, _, _, _)
TorusPosInner(row, column, irad, orad, i, ii) ==
    IF ii > column THEN <<>>
    ELSE <<Term("tx", row, column, irad, orad, i, ii),
           Term("ty", row, column, irad, orad, i, ii),
           Term("tz", row, column, irad, orad, i, ii)>>
         \o TorusPosInner(row, column, irad, orad, i, ii + 1)

\* ... to nor
RECURSIVE TorusNorInner(_, _, _, _, _, _)
TorusNorInner(row, column, irad, orad, i, ii) ==
    IF ii > column THEN <<>>
    ELSE <<Term("rx", row, column, irad, orad, i, ii),
           Term("ry", row, column, irad, orad, i, ii),
           Term("rz", row, column, irad, orad, i, ii)>>
         \o TorusNorInner(row, column, irad, orad, i, ii + 1)

\* ... to col: tc = this._hsva(360 / column * ii, 1, 1, 1)
RECURSIVE TorusColInner(_, _)
TorusColInner(column, ii) ==
    IF ii > column THEN <<>>
    ELSE LET tc == hsva(Norm(360 * ii, column), One, One, One).color
         IN  <<JsAt(tc, 0), JsAt(tc, 1), JsAt(tc, 2), JsAt(tc, 3)>>
             \o TorusColInner(column, ii + 1)

\* the outer vertex loop, from i on
RECURSIVE TorusPos(_, _, _, _, _)
TorusPos(row, column, irad, orad, i) ==
    IF i > row THEN <<>>
    ELSE TorusPosInner(row, column, irad, orad, i, 0)
         \o TorusPos(row, column, irad, orad, i + 1)

RECURSIVE TorusNor(_, _, _, _, _)
TorusNor(row, column, irad, orad, i) ==
    IF i > row THEN <<>>
    ELSE TorusNorInner(row, column, irad, orad, i, 0)
         \o TorusNor(row, column, irad, orad, i + 1)

RECURSIVE TorusCol(_, _, _)
TorusCol(row, column, i) ==
    IF i > row THEN <<>>
    ELSE TorusColInner(column, 0) \o TorusCol(row, column, i + 1)

TorusQuadOffByOne(column, r) ==
    <<r, r + column + 1, r + 1, r + column + 1, r + column + 3, r + 1>>

\* idx.push(r, r + column + 1, r + 1); idx.push(r + column + 1, r + column + 2, r + 1)
TorusQuad(column, r) ==
    <<r, r + column + 1, r + 1, r + column + 1, r + column + 2, r + 1>>

\* the inner index loop, from ii on
RECURSIVE TorusIdxInner(_, _, _)
TorusIdxInner(column, i, ii) ==
    IF ~(ii < column) THEN <<>>
    ELSE TorusQuad(column, (column + 1) * i + ii) \o TorusIdxInner(column, i, ii + 1)

\* the outer index loop, from i on
RECURSIVE TorusIdx(_, _, _)
TorusIdx(row, column, i) ==
    IF ~(i < row) THEN <<>>
    ELSE TorusIdxInner(column, i, 0) \o TorusIdx(row, column, i + 1)

\* the attribute list create_torus hands to create_polygon
TorusProps(row, column, irad, orad) ==
    <<[attribute |-> "position", dimension |-> 3,
       vertex |-> TorusPos(row, column, irad, orad, 0)],
      [attribute |-> "normal", dimension |-> 3,
       vertex |-> TorusNor(row, column, irad, orad, 0)],
      [attribute |-> "color", dimension |-> 4,
       vertex |-> TorusCol(row, column, 0)]>>

\* this._index = [0, 1, 2, 1, 2, 3]
DefaultIndex == <<0, 1, 2, 1, 2, 3>>

-----------------------------------------------------------------------------
(* _render_pipeline and render.                                            *)

\* the axis of the rotation an object without a positions list gets
NullAxis == <<0, 1, 1>>

\* one gl.drawArrays of convert_and_attach, with the model matrix behind its mvp
DrawArrays(k, idx, m, rotated, angle) ==
    [call |-> "drawArrays", obj |-> k, idx |-> idx, model |-> m,
     rotated |-> rotated, angle |-> angle, count |-> 3]

\* gl.drawElements(gl.TRIANGLES, this._index.length, ...) at the end of render
DrawElements(m, ix) ==
    [call |-> "drawElements", obj |-> 0, idx |-> -1, model |-> m,
     rotated |-> FALSE, angle |-> Undefined, count |-> Len(ix)]

ResetAtFirst(idx) == idx = 0

\* if (Number(index) > 0) this._matrix.raw.identity(this._matrix.model)
ResetBefore(idx) == idx > 0

\* for (const [index, [x, y, z]] of Object.entries(positions)), from idx on;
\* the result is the model matrix left behind and the draw calls made
RECURSIVE PlacementLoop(_, _, _, _, _, _)
PlacementLoop(k, obj, idx, t, m, acc) ==
    IF ~(idx < Len(obj.positions.val)) THEN [model |-> m, draws |-> acc]
    ELSE
        LET m1 == IF ResetBefore(idx) THEN Identity ELSE m
            m2 == Translate(m1, obj.positions.val[idx + 1])
            m3 == IF ~obj.rotate.null
                  THEN Rotate(m2, TickAngle(t), obj.rotate.val)
                  ELSE m2
            d  == DrawArrays(k, idx, m3, ~obj.rotate.null,
                             IF obj.rotate.null THEN Undefined ELSE TickAngle(t))
        IN  PlacementLoop(k, obj, idx + 1, t, m3, Append(acc, d))

\* the body of the object loop after the uploads: lines 342-363
DrawObject(k, obj, t, m, acc) ==
    IF obj.positions.null
    THEN LET m3 == Rotate(Translate(Identity, Zero3), TickAngle(t), NullAxis)
         IN  [model |-> m3,
              draws |-> Append(acc, DrawArrays(k, -1, m3, TRUE, TickAngle(t)))]
    ELSE PlacementLoop(k, obj, 0, t, m, acc)

\* for (const { attribute, vertex, dimension } of props): one VBO per attribute
Uploads(k, obj) == [j \in 1..Len(obj.props) |-> <<k, obj.props[j].attribute>>]

VisitBackward(k, n) == n + 1 - k

\* the object the k-th turn of `for (... of this._polygon)` takes, of n objects
Visit(k, n) == k

\* for (const { props, positions, rotate } of this._polygon), from turn k on
RECURSIVE ObjectLoop(_, _, _, _, _, _)
ObjectLoop(poly, k, t, m, ups, acc) ==
    IF k > Len(poly) THEN [model |-> m, uploads |-> ups, draws |-> acc]
    ELSE
        LET o == Visit(k, Len(poly))
            r == DrawObject(o, poly[o], t, m, acc)
        IN  ObjectLoop(poly, k + 1, t, r.model, ups \o Uploads(o, poly[o]), r.draws)

RenderPipeline(poly, t, m) == ObjectLoop(poly, 1, t, m, <<>>, <<>>)

TickDrawnBeforeIncrement(t) == t

\* the tick _render_pipeline reads: render() has incremented it before the call
TickDrawn(t) == t + 1

-----------------------------------------------------------------------------
(* The inputs of the public operations.                                    *)

\* the triangle of the example page: 3 positions, 3 colours
TriangleProps ==
    <<[attribute |-> "position", dimension |-> 3,
       vertex |-> <<RInt(0), Half, RInt(0), Half, RInt(0), RInt(0),
                    RSub(RInt(0), Half), RInt(0), RInt(0)>>],
      [attribute |-> "color", dimension |-> 4,
       vertex |-> <<RInt(0), One, RInt(0), One, One, RInt(0), RInt(0), One,
                    RInt(0), RInt(0), One, One>>]>>

\* a translation off the origin
Off == <<1, 0, 0>>

\* the positions lists of up to MaxPlacements entries: the first at the origin
\* or off it, the others off it
PositionLists ==
    {[j \in 1..n |-> IF j = z THEN Zero3 ELSE Off] :
        n \in 0..MaxPlacements, z \in {0, 1}}

\* the rotation axes given to create_polygon
RotateArgs == {Null, Some(<<0, 1, 0>>)}

\* the second argument of create_polygon: {} or { positions, rotate }
PolygonArgs ==
    {<<Null, Null>>} \cup {<<Some(ps), r>> : ps \in PositionLists, r \in RotateArgs}

\* create_plane(x, y, z, size)
PlaneArgs == {<<0, 0, 0, 2>>, <<1, 0, 0, 1>>}

\* create_torus(row, column, irad, orad) in a scene that is rendered
TorusArgs == {<<1, 1, 1, 2>>, <<2, 3, 1, 2>>}

\* create_torus(row, column, irad, orad) over a grid of ring and segment counts
TorusGrid ==
    {<<r, c, 1, o>> : r \in 1..MaxRow, c \in 1..MaxColumn, o \in {2, 3}}

-----------------------------------------------------------------------------
(* The state after construction, and the public operations.                *)

NoTorus == [null |-> TRUE, val |-> <<>>]

SceneInit ==
    /\ polygon = <<>>
    /\ index = DefaultIndex
    /\ tick = 0
    /\ model = Identity
    /\ attached = FALSE
    /\ uploads = <<>>
    /\ draws = <<>>
    /\ frameStart = Identity
    /\ frames = 0
    /\ origin = <<>>
    /\ lastTorus = NoTorus
    /\ context = TRUE
    /\ linked = TRUE
    /\ log = <<>>
    /\ constructed = TRUE
    /\ strict = TRUE

\* _create_shader: what it logs when the shader compiles or does not
CreateShaderLog(compiles) == IF compiles THEN <<>> ELSE <<"shader info log">>

\* _create_program: what it logs when the program links or does not
CreateProgramLog(links) == IF links THEN <<>> ELSE <<"program info log">>

\* _initialize in an environment with or without WebGL, whose shaders compile
\* or not and whose program links or not, under a binding that is strict or not
Initialize(webgl, vertex, fragment, link, s) ==
    /\ polygon = <<>>
    /\ model = Identity
    /\ attached = FALSE
    /\ uploads = <<>>
    /\ draws = <<>>
    /\ frameStart = Identity
    /\ frames = 0
    /\ origin = <<>>
    /\ lastTorus = NoTorus
    /\ tick = 0
    /\ strict = s
    /\ context = webgl
    /\ IF ~webgl
       THEN \* console.error('WebGL is not supported in your browser.'); return;
            /\ log = <<"WebGL is not supported in your browser.">>
            /\ linked = FALSE
            /\ constructed = TRUE
            /\ index = <<>>
       ELSE LET shaderLog == CreateShaderLog(vertex) \o CreateShaderLog(fragment)
                links     == vertex /\ fragment /\ link
            IN  IF ~(vertex /\ fragment) /\ s
                THEN \* gl.attachShader(program, undefined) throws a TypeError
                     /\ log = shaderLog
                     /\ linked = FALSE
                     /\ constructed = FALSE
                     /\ index = <<>>
                ELSE /\ log = shaderLog \o CreateProgramLog(links)
                     /\ linked = links
                     /\ constructed = TRUE
                     /\ index = DefaultIndex

HsvaIdle ==
    /\ hsvaIn = <<RInt(0), RInt(0), RInt(0), RInt(0)>>
    /\ hsvaCalled = FALSE
    /\ hsvaOut = NoResult

Init == SceneInit /\ HsvaIdle

create_polygon ==
    /\ constructed
    /\ Len(polygon) < MaxObjects
    /\ \E p \in PolygonArgs :
           polygon' = PolygonPush(polygon, TriangleProps, p[1], p[2])
    /\ origin' = Append(origin, [op |-> "create_polygon", args |-> <<>>])
    /\ UNCHANGED <<index, tick, model, attached, uploads, draws, frameStart,
                   frames, lastTorus, startVars, hsvaVars>>

create_plane ==
    /\ constructed
    /\ Len(polygon) + 2 <= MaxObjects
    /\ \E p \in PlaneArgs :
           /\ polygon' =
                  PolygonPush(
                      PolygonPush(polygon, PlaneFirst(p[1], p[2], p[3], p[4]),
                                  Some(<<Zero3>>), Null),
                      PlaneSecond(p[1], p[2], p[3], p[4]), Some(<<Zero3>>), Null)
           /\ origin' = origin \o <<[op |-> "create_plane", args |-> p],
                                     [op |-> "create_plane", args |-> p]>>
    /\ UNCHANGED <<index, tick, model, attached, uploads, draws, frameStart,
                   frames, lastTorus, startVars, hsvaVars>>

CreateTorusKeepingIndex(Args) ==
    /\ constructed
    /\ Len(polygon) < MaxObjects
    /\ \E p \in Args :
           /\ polygon' = PolygonPush(polygon, TorusProps(p[1], p[2], p[3], p[4]),
                                     Null, Null)
           /\ lastTorus' = Some(p)
           /\ origin' = Append(origin, [op |-> "create_torus", args |-> p])
    /\ UNCHANGED <<index, tick, model, attached, uploads, draws, frameStart,
                   frames, startVars, hsvaVars>>

\* create_torus(row, column, irad, orad), its arguments drawn from Args
CreateTorusFrom(Args) ==
    /\ constructed
    /\ Len(polygon) < MaxObjects
    /\ \E p \in Args :
           /\ polygon' = PolygonPush(polygon, TorusProps(p[1], p[2], p[3], p[4]),
                                     Null, Null)
           /\ index' = TorusIdx(p[1], p[2], 0)
           /\ lastTorus' = Some(p)
           /\ origin' = Append(origin, [op |-> "create_torus", args |-> p])
    /\ UNCHANGED <<tick, model, attached, uploads, draws, frameStart, frames,
                   startVars, hsvaVars>>

create_torus == CreateTorusFrom(TorusArgs)

create_torus_grid == CreateTorusFrom(TorusGrid)

append ==
    /\ constructed
    /\ attached' = TRUE
    /\ UNCHANGED <<polygon, index, tick, model, uploads, draws, frameStart,
                   frames, origin, lastTorus, startVars, hsvaVars>>

\* gl.getAttribLocation(this._program, attribute) throws a TypeError: the
\* program is undefined, the binding is strict and there is an object to draw
PipelineThrows == ~linked /\ strict /\ polygon # <<>>

\* without a context _initialize returned before it set _status, and render
\* throws on this._status.tick before it changes anything
render ==
    /\ constructed
    /\ context
    /\ tick < MaxTick
    /\ tick' = tick + 1
    /\ IF PipelineThrows
       THEN /\ model' = model
            /\ uploads' = <<>>
            /\ draws' = <<>>
       ELSE LET r == RenderPipeline(polygon, TickDrawn(tick), model)
            IN  /\ model' = r.model
                /\ uploads' = r.uploads
                /\ draws' = Append(r.draws, DrawElements(r.model, index))
    /\ frameStart' = model
    /\ frames' = frames + 1
    /\ UNCHANGED <<polygon, index, attached, origin, lastTorus, startVars,
                   hsvaVars>>

Next == create_polygon \/ create_plane \/ create_torus \/ append \/ render

Spec == Init /\ [][Next]_vars

\* the constructor in every environment
StartupInit ==
    /\ HsvaIdle
    /\ \E webgl, vertex, fragment, link, s \in BOOLEAN :
           Initialize(webgl, vertex, fragment, link, s)

\* the program from construction on, whether construction succeeded or not
SpecStartup == StartupInit /\ [][Next]_vars

\* hues: the multiples of 7.5 degrees, negative ones and ones beyond 360 included
Hues == {Norm(15 * k, 2) : k \in -MaxHueK..MaxHueK}

\* saturations, values and alphas: the multiples of 1/2 from -1/2 on
Units == {Norm(k, 2) : k \in -1..MaxUnitK}

HsvaInit ==
    /\ SceneInit
    /\ hsvaIn \in Hues \X Units \X Units \X Units
    /\ hsvaCalled = FALSE
    /\ hsvaOut = NoResult

\* one call this._hsva(h, s, v, a)
call_hsva ==
    /\ ~hsvaCalled
    /\ hsvaCalled' = TRUE
    /\ hsvaOut' = hsva(hsvaIn[1], hsvaIn[2], hsvaIn[3], hsvaIn[4])
    /\ UNCHANGED <<sceneVars, hsvaIn>>

HsvaNext == call_hsva

\* _hsva as a pure function of its arguments
SpecHsva == HsvaInit /\ [][HsvaNext]_vars

\* the shape generators alone, over the whole grid of torus arguments
ShapeNext == create_torus_grid \/ create_plane

SpecShapes == Init /\ [][ShapeNext]_vars

-----------------------------------------------------------------------------
(* Claims about _hsva, checked under SpecHsva.                             *)

InH == hsvaIn[1]

InS == hsvaIn[2]

InV == hsvaIn[3]

InA == hsvaIn[4]

Zero == RInt(0)

\* C6: for every hue (any sign, any magnitude) and every v <= 1, a <= 1,
\* _hsva(h, 0, v, a) returns exactly (v, v, v, a).
C6_AchromaticAtZeroSaturation ==
    (hsvaCalled /\ InS = Zero /\ RLe(InV, One) /\ RLe(InA, One))
        => hsvaOut = [returned |-> TRUE, color |-> <<InV, InV, InV, InA>>]

\* a call with saturation 0 and a negative hue that is no multiple of 360
C6_Witness ==
    /\ hsvaCalled
    /\ InS = Zero /\ InV = Half /\ InA = One
    /\ InH = RInt(-45)
    /\ hsvaOut.returned

\* the hue's fraction within its sector, for a hue in [0, 360)
SectorFraction(h) == RSub(RDivInt(h, 60), RInt(RFloor(RDivInt(h, 60))))

\* the colour of the fully saturated hue h in [0, 360), by sector: the tables
\* r = [v,n,m,m,k,v], g = [k,v,v,n,m,m], b = [m,m,k,v,v,n] at v = 1, m = 0,
\* n = 1 - f, k = f
PureColor(h) ==
    LET f == SectorFraction(h)
        g == RSub(One, f)
        i == RFloor(RDivInt(h, 60))
    IN  CASE i = 0 -> <<One, f, Zero>>
          [] i = 1 -> <<g, One, Zero>>
          [] i = 2 -> <<Zero, One, f>>
          [] i = 3 -> <<Zero, g, One>>
          [] i = 4 -> <<f, Zero, One>>
          [] i = 5 -> <<One, Zero, g>>

\* C7: for every hue in [0, 360), _hsva(h, 1, 1, 1) has alpha 1, at least one of
\* r, g, b equal to 1 and at least one equal to 0, taken from the lookup tables
\* by sector floor(h / 60); at 0, 60, ..., 300 it is red, yellow, green, cyan,
\* blue, magenta.
C7_PureHues ==
    (/\ hsvaCalled
     /\ ~RLt(InH, Zero) /\ RLt(InH, RInt(360))
     /\ InS = One /\ InV = One /\ InA = One)
        => /\ hsvaOut.returned
           /\ Len(hsvaOut.color) = 4
           /\ hsvaOut.color[4] = One
           /\ \E c \in 1..3 : hsvaOut.color[c] = One
           /\ \E c \in 1..3 : hsvaOut.color[c] = Zero
           /\ SubSeq(hsvaOut.color, 1, 3) = PureColor(InH)
           /\ InH = RInt(0) => SubSeq(hsvaOut.color, 1, 3) = <<One, Zero, Zero>>
           /\ InH = RInt(60) => SubSeq(hsvaOut.color, 1, 3) = <<One, One, Zero>>
           /\ InH = RInt(120) => SubSeq(hsvaOut.color, 1, 3) = <<Zero, One, Zero>>
           /\ InH = RInt(180) => SubSeq(hsvaOut.color, 1, 3) = <<Zero, One, One>>
           /\ InH = RInt(240) => SubSeq(hsvaOut.color, 1, 3) = <<Zero, Zero, One>>
           /\ InH = RInt(300) => SubSeq(hsvaOut.color, 1, 3) = <<One, Zero, One>>

\* the call _hsva(300, 1, 1, 1) has returned magenta
C7_Witness ==
    /\ hsvaCalled
    /\ hsvaIn = <<RInt(300), One, One, One>>
    /\ hsvaOut.color = <<One, Zero, One, One>>

\* C8: hue wraps modulo 360 with negative hues normalized into [0, 360): for
\* every integer hue and every saturation in (0, 1] the sector index is in 0..5,
\* all four returned components are defined numbers, and
\* _hsva(h, s, v, a) = _hsva(h + 360, s, v, a).
C8_HueWraps ==
    (/\ hsvaCalled
     /\ InH.d = 1
     /\ RGt(InS, Zero) /\ RLe(InS, One) /\ RLe(InV, One) /\ RLe(InA, One))
        => /\ HsvaSector(InH) \in 0..5
           /\ hsvaOut.returned
           /\ Len(hsvaOut.color) = 4
           /\ \A c \in 1..4 : IsDefined(hsvaOut.color[c])
           /\ hsvaOut = hsva(RAdd(InH, RInt(360)), InS, InV, InA)

\* C9: _hsva returns nothing whenever saturation, value or alpha exceeds 1, for
\* any hue, and returns a 4-component array whenever all three are <= 1.
C9_NoResultBeyondOne ==
    hsvaCalled =>
        /\ (RGt(InS, One) \/ RGt(InV, One) \/ RGt(InA, One))
               => (~hsvaOut.returned /\ hsvaOut.color = <<>>)
        /\ (RLe(InS, One) /\ RLe(InV, One) /\ RLe(InA, One))
               => (hsvaOut.returned /\ Len(hsvaOut.color) = 4)

\* a call whose alpha alone exceeds 1 has returned nothing
C9_Witness ==
    /\ hsvaCalled
    /\ InS = One /\ InV = One /\ RGt(InA, One)
    /\ ~hsvaOut.returned

-----------------------------------------------------------------------------
(* Claims about the render pipeline, checked under Spec.                   *)

\* the draw calls of the last render call that drew a placement of a list
PlacementDraws ==
    {j \in 1..Len(draws) : draws[j].call = "drawArrays" /\ draws[j].idx >= 0}

\* the model matrix as draw call j's placement found it
Carried(j) == IF j = 1 THEN frameStart ELSE draws[j - 1].model

\* matrix m translated to the placement of draw call d and then rotated by the
\* angle d used, when its object has an axis
Placed(m, d) ==
    LET obj == polygon[d.obj]
        m2  == Translate(m, obj.positions.val[d.idx + 1])
    IN  IF obj.rotate.null THEN m2 ELSE Rotate(m2, d.angle, obj.rotate.val)

\* draw call d drew the only placement of its object, at the origin, unrotated
SingleAtOrigin(d) ==
    /\ polygon[d.obj].positions.val = <<Zero3>>
    /\ polygon[d.obj].rotate.null

RotatedDraws ==
    {j \in 1..Len(draws) : draws[j].call = "drawArrays" /\ draws[j].rotated}

\* draw call j belongs to an object with an axis (or without a positions list)
HasAxis(j) ==
    \/ polygon[draws[j].obj].positions.null
    \/ ~polygon[draws[j].obj].rotate.null

\* C3 as stated: tick starts at 0 and only render changes it, by 1; the k-th
\* render call (k = 0, 1, ...) rotates every placement with an axis by k degrees.
C3_IncrementAfterDraw ==
    /\ tick = frames
    /\ \A j \in 1..Len(draws) :
           draws[j].call = "drawArrays" =>
               /\ draws[j].rotated = HasAxis(j)
               /\ draws[j].rotated => draws[j].angle = Norm(frames - 1, 180)

\* C3 as the code has it: tick starts at 0 and only render changes it, by 1, and
\* the increment takes effect before that frame's draw calls: the k-th render
\* call (k = 0, 1, ...) rotates every placement with an axis by (k+1)*pi/180
\* radians, the value of tick while it draws.
C3_IncrementBeforeDraw ==
    /\ tick = frames
    /\ \A j \in 1..Len(draws) :
           draws[j].call = "drawArrays" =>
               /\ draws[j].rotated = HasAxis(j)
               /\ draws[j].rotated => draws[j].angle = Norm(frames, 180)
               /\ draws[j].rotated => draws[j].angle = Norm(tick, 180)

\* the second render call drew a placement of a list rotated by 2 degrees
C3_Witness ==
    /\ frames = 2
    /\ \E j \in RotatedDraws :
           /\ draws[j].idx >= 0
           /\ draws[j].angle = Norm(2, 180)

\* the index list of a torus of row rings and column segments: for each ring i
\* and segment ii, base = (column+1)*i + ii and the two triangles
\* (base, base+column+1, base+1), (base+column+1, base+column+2, base+1)
ExpectedIndex(row, column) ==
    [j \in 1..(6 * row * column) |->
        LET q    == (j - 1) \div 6
            base == (column + 1) * (q \div column) + (q % column)
        IN  base + <<0, column + 1, 1, column + 1, column + 2, 1>>[((j - 1) % 6) + 1]]

\* the active index list is that of the most recent create_torus call, or the
\* default two triangles
IndexIsLastTorus ==
    index = IF lastTorus.null THEN DefaultIndex
            ELSE ExpectedIndex(lastTorus.val[1], lastTorus.val[2])

\* C4: the single active index list is the one the most recent create_torus
\* call generated, or [0,1,2,1,2,3] if there was none; create_polygon,
\* create_plane and render leave it unchanged.
C4_IndexFromLastTorus ==
    /\ []IndexIsLastTorus
    /\ [][(create_polygon \/ create_plane \/ render) => index' = index]_vars

\* two create_torus calls with different arguments, then a render call
C4_Witness ==
    /\ Len(origin) = 2
    /\ origin[1].op = "create_torus" /\ origin[2].op = "create_torus"
    /\ origin[1].args # origin[2].args
    /\ frames > 0
    /\ index = ExpectedIndex(origin[2].args[1], origin[2].args[2])
    /\ index # ExpectedIndex(origin[1].args[1], origin[1].args[2])

\* s is an initial segment of t
IsPrefix(s, t) == Len(s) <= Len(t) /\ SubSeq(t, 1, Len(s)) = s

\* the objects a list of uploads visits, in order, each once
RECURSIVE Visited(_)
Visited(entries) ==
    IF entries = <<>> THEN <<>>
    ELSE LET rest == Visited(Tail(entries))
         IN  IF rest # <<>> /\ rest[1] = Head(entries) THEN rest
             ELSE <<Head(entries)>> \o rest

\* C5: the registry is append-only and order-preserving: create_polygon appends
\* exactly one object at the end, no operation removes, reorders or replaces a
\* registered object, and render visits the objects in registration order.
C5_AppendOnlyInOrder ==
    [][/\ IsPrefix(polygon, polygon')
       /\ create_polygon => Len(polygon') = Len(polygon) + 1
       /\ render =>
              /\ polygon' = polygon
              /\ Visited([j \in 1..Len(uploads') |-> uploads'[j][1]])
                     = [k \in 1..Len(polygon) |-> k]
              /\ \A a, b \in 1..(Len(draws') - 1) :
                     a < b => draws'[a].obj <= draws'[b].obj]_vars

\* a render call has visited two objects registered by different operations
C5_Witness ==
    /\ Len(polygon) = 2
    /\ origin[1].op = "create_torus" /\ origin[2].op = "create_polygon"
    /\ uploads = <<<<1, "position">>, <<1, "normal">>, <<1, "color">>,
                   <<2, "position">>, <<2, "color">>>>
    /\ Len(draws) > 2

-----------------------------------------------------------------------------
(* Claims about the shape generators, checked under SpecShapes.            *)

\* the number of vertices an attribute holds
VertexCount(p) == Len(p.vertex) \div p.dimension

\* the attribute of object obj named name
Attr(obj, name) ==
    CHOOSE p \in {obj.props[j] : j \in 1..Len(obj.props)} : p.attribute = name

\* C2: for every ringCount >= 1 and segmentCount >= 1, create_torus registers
\* one object whose position, normal and colour attributes each hold exactly
\* (ringCount+1)*(segmentCount+1) vertices, and sets the active index list to
\* exactly 6*ringCount*segmentCount indices, each >= 0 and below the vertex count.
C2_TorusCounts ==
    /\ \A k \in 1..Len(polygon) :
           origin[k].op = "create_torus" =>
               LET n == (origin[k].args[1] + 1) * (origin[k].args[2] + 1)
               IN  /\ [j \in 1..Len(polygon[k].props) |-> polygon[k].props[j].attribute]
                          = <<"position", "normal", "color">>
                   /\ Len(Attr(polygon[k], "position").vertex) = 3 * n
                   /\ Len(Attr(polygon[k], "normal").vertex) = 3 * n
                   /\ Len(Attr(polygon[k], "color").vertex) = 4 * n
                   /\ \A p \in {polygon[k].props[j] : j \in 1..3} :
                          /\ Len(p.vertex) % p.dimension = 0
                          /\ VertexCount(p) = n
    /\ Len(origin) = Len(polygon)
    /\ ~lastTorus.null =>
           LET r == lastTorus.val[1]
               c == lastTorus.val[2]
           IN  /\ Len(index) = 6 * r * c
               /\ \A j \in 1..Len(index) :
                      index[j] >= 0 /\ index[j] < (r + 1) * (c + 1)

\* create_torus(2, 3, ...) was the last call: 12 vertices, 36 indices
C2_Witness ==
    /\ Len(polygon) > 0
    /\ origin[Len(polygon)].op = "create_torus"
    /\ origin[Len(polygon)].args[1] = 2 /\ origin[Len(polygon)].args[2] = 3
    /\ Len(Attr(polygon[Len(polygon)], "color").vertex) = 48
    /\ Len(index) = 36

\* data.length % dimension = 0 for each attribute, and one vertex count for all
VertexInvariant(obj) ==
    /\ \A j \in 1..Len(obj.props) :
           Len(obj.props[j].vertex) % obj.props[j].dimension = 0
    /\ \A i, j \in 1..Len(obj.props) :
           VertexCount(obj.props[i]) = VertexCount(obj.props[j])

\* C10: every object create_plane and create_torus register satisfies the
\* vertex-attribute invariant.
C10_LibraryObjectsWellFormed ==
    \A k \in 1..Len(polygon) :
        origin[k].op \in {"create_plane", "create_torus"}
            => VertexInvariant(polygon[k])

-----------------------------------------------------------------------------
(* Claims about transforms across frames and objects, checked under Spec.  *)

\* the identity translated to the placement of draw call d and then rotated by
\* the angle of tick t about the axis of its object, if it has one
FreshlyPlaced(d, t) ==
    LET obj == polygon[d.obj]
        m2  == Translate(Identity, obj.positions.val[d.idx + 1])
    IN  IF obj.rotate.null THEN m2 ELSE Rotate(m2, TickAngle(t), obj.rotate.val)

\* C12: transforms never accumulate across frames or across objects: in every
\* render call the first placement of each object is drawn with the identity
\* translated by that placement's translation and then rotated by the current
\* tick angle about the object's axis (if any), whatever was rendered before.
C12_NoAccumulation ==
    \A j \in PlacementDraws :
        draws[j].idx = 0 => draws[j].model = FreshlyPlaced(draws[j], tick)

-----------------------------------------------------------------------------
(* Claims about construction, checked under SpecStartup.                   *)

\* a shader failed to compile or the program failed to link
CompileOrLinkFailed ==
    \E i \in 1..Len(log) : log[i] \in {"shader info log", "program info log"}

\* C11: if a shader fails to compile or the program fails to link during
\* construction, the failure is logged and rendering does not proceed:
\* initialization halts in a failed state and no later render call submits a
\* draw call.
C11_FailedStartupHalts ==
    (context /\ ~linked) =>
        /\ CompileOrLinkFailed
        /\ draws = <<>>

=============================================================================
